---------------------------- MODULE Spec2Model ----------------------------
(***************************************************************************)
(* Error-injection virtual block device (module/bdev/error/vbdev_error.c). *)
(*                                                                         *)
(* The module keeps a process-wide configuration list (g_error_config),   *)
(* a list of error disks (g_error_disks), and per disk a fault vector     *)
(* (error_vector) and a queue of parked requests (pending_ios).  Each I/O *)
(* channel of a disk counts the requests it has forwarded (io_inflight).  *)
(***************************************************************************)
EXTENDS Integers, Sequences, FiniteSets, TLC

(***************************************************************************)
(* Bounds of the model.                                                    *)
(***************************************************************************)
MaxReqs == 3
MaxInjects == 1
MaxErrorNum == 2
MaxQd == 1
MaxInflight == 1
MaxCfgInjects == 2
MaxCfgReqs == 1
MaxMtReqs == 2
MaxMtInjects == 1
MaxIovs == 2
MaxIovLen == 2
MaxDataReqs == 2

(***************************************************************************)
(* Program constants.                                                      *)
(***************************************************************************)
SPDK_BDEV_IO_TYPE_INVALID == 0
SPDK_BDEV_IO_TYPE_READ == 1
SPDK_BDEV_IO_TYPE_WRITE == 2
SPDK_BDEV_IO_TYPE_UNMAP == 3
SPDK_BDEV_IO_TYPE_FLUSH == 4
SPDK_BDEV_IO_TYPE_RESET == 5
SPDK_BDEV_IO_TYPE_WRITE_ZEROES == 9
\* 0xffffffff at line 121.  TLC's integers are 32-bit signed, so a uint32_t is
\* written as the signed integer with the same bits; the code only tests the
\* 32-bit fields for equality and against 0, which this keeps exact.
IO_TYPE_ALL == -1

VBDEV_IO_FAILURE == 1
VBDEV_IO_PENDING == 2
VBDEV_IO_CORRUPT_DATA == 3
VBDEV_IO_NOMEM == 4

SPDK_BDEV_IO_STATUS_SUCCESS == "SUCCESS"
SPDK_BDEV_IO_STATUS_FAILED == "FAILED"
SPDK_BDEV_IO_STATUS_NOMEM == "NOMEM"

ENOENT == 2
ENOMEM == 12
EEXIST == 17
ENODEV == 19
EINVAL == 22

\* The largest io_inflight or error_qd (uint64_t): it stands for 2^64 - 1, which
\* TLC cannot write; every other count of the model is far below it.
UINT64_MAX == 2147483647

(***************************************************************************)
(* Names.  A base bdev b carries the error bdev EE_b.                      *)
(***************************************************************************)
BaseNames == {"b1", "b2"}
EE(base) == "EE_" \o base
Threads == {1, 2}
Uuids == {0, 1}
spdk_uuid_is_null(uuid) == uuid = 0

(***************************************************************************)
(* Data buffers: an iovec is a buffer (a sequence of bytes) with its       *)
(* length; iov_base_null marks an unset buffer.                            *)
(***************************************************************************)
RECURSIVE Xor8Bits(_, _, _)
Xor8Bits(a, b, n) ==
    IF n = 0 THEN 0
    ELSE (IF (a % 2) = (b % 2) THEN 0 ELSE 1) + 2 * Xor8Bits(a \div 2, b \div 2, n - 1)
Xor8(a, b) == Xor8Bits(a, b, 8)

Iov(buf) == [iov_base_null |-> FALSE, iov_base |-> buf, iov_len |-> Len(buf)]
Payload == [iovs_null |-> FALSE, iovs |-> <<Iov(<<17>>), Iov(<<34, 51>>)>>]
NoPayload == [iovs_null |-> TRUE, iovs |-> <<>>]

\* mutant: the length of a buffer that is passed over is not taken from the
\* running offset
RECURSIVE CorruptWalk_NoSubtract(_, _, _, _)
CorruptWalk_NoSubtract(iovs, i, off, val) ==
    IF i > Len(iovs) THEN iovs
    ELSE IF iovs[i].iov_len > off
         THEN [iovs EXCEPT ![i].iov_base[off + 1] = Xor8(@, val)]
         ELSE CorruptWalk_NoSubtract(iovs, i + 1, off, val)

\* The loop of vbdev_error_corrupt_io_data from buffer i on, with the running
\* offset off.
RECURSIVE CorruptWalk(_, _, _, _)
CorruptWalk(iovs, i, off, val) ==
    IF i > Len(iovs) THEN iovs
    ELSE IF iovs[i].iov_len > off
         THEN [iovs EXCEPT ![i].iov_base[off + 1] = Xor8(@, val)]
         ELSE CorruptWalk(iovs, i + 1, off - iovs[i].iov_len, val)

vbdev_error_corrupt_io_data(data, corrupt_offset, corrupt_value) ==
    IF data.iovs_null \/ Len(data.iovs) = 0 \/ data.iovs[1].iov_base_null
    THEN data
    ELSE [data EXCEPT !.iovs = CorruptWalk(data.iovs, 1, corrupt_offset, corrupt_value)]

(***************************************************************************)
(* State.                                                                  *)
(***************************************************************************)
VARIABLES
    bdevs,          \* names of the bdevs registered with the bdev layer
    g_error_config, \* sequence of [base_bdev, uuid]
    g_error_disks,  \* error bdev name -> [base, uuid, error_vector, pending_ios]
    io_inflight,    \* error bdev name -> [thread -> io_inflight of its channel]
    bdev_ios,       \* outstanding request id -> [type, disk, ch, data, at]
    n_reqs,         \* requests submitted so far (the last request id)
    n_injects,      \* calls of vbdev_error_inject_error so far
    out,            \* what the last call returned, completed and forwarded
    pc              \* where each thread stands inside a call it has not finished

vars == <<bdevs, g_error_config, g_error_disks, io_inflight, bdev_ios,
          n_reqs, n_injects, out, pc>>

ErrorVectorIndex == 0 .. (SPDK_BDEV_IO_TYPE_RESET - 1)

ZeroInfo ==
    [error_type |-> 0, error_num |-> 0, error_qd |-> 0,
     corrupt_offset |-> 0, corrupt_value |-> 0]

\* calloc'ed struct error_disk after TAILQ_INIT(&disk->pending_ios)
NewDisk(base, uuid) ==
    [base |-> base, uuid |-> uuid,
     error_vector |-> [i \in ErrorVectorIndex |-> ZeroInfo],
     pending_ios |-> <<>>]

\* What a call gives back: the call, its return value, the requests it completed
\* with spdk_bdev_io_complete (in order), the requests it handed to the base
\* bdev and the error bdevs it destructed.
NoOut == [op |-> "none", rc |-> 0, completed |-> <<>>, forwarded |-> <<>>,
          destructed |-> <<>>]
Out(op) == [NoOut EXCEPT !.op = op]

Completion(id, status, data) == [io |-> id, status |-> status, data |-> data]
Forwarded(id, data, rc) == [io |-> id, data |-> data, rc |-> rc]

(***************************************************************************)
(* vbdev_error_inject_error                                                *)
(***************************************************************************)
IoTypeSelectors ==
    {SPDK_BDEV_IO_TYPE_INVALID, SPDK_BDEV_IO_TYPE_READ, SPDK_BDEV_IO_TYPE_WRITE,
     SPDK_BDEV_IO_TYPE_UNMAP, SPDK_BDEV_IO_TYPE_FLUSH, IO_TYPE_ALL}
ErrorTypes == {VBDEV_IO_FAILURE, VBDEV_IO_PENDING, VBDEV_IO_CORRUPT_DATA, VBDEV_IO_NOMEM}
CorruptOffsets == {1, 3}
CorruptValues == {0, 255}

\* The options a caller passes: corruption parameters accompany the
\* corrupt-data error type and are left at 0 otherwise.
InjectOpts ==
    [io_type : IoTypeSelectors,
     error_type : ErrorTypes \ {VBDEV_IO_CORRUPT_DATA},
     error_num : 1 .. MaxErrorNum, error_qd : 0 .. MaxQd,
     corrupt_offset : {0}, corrupt_value : {0}]
    \cup
    [io_type : IoTypeSelectors,
     error_type : {VBDEV_IO_CORRUPT_DATA},
     error_num : 1 .. MaxErrorNum, error_qd : 0 .. MaxQd,
     corrupt_offset : CorruptOffsets, corrupt_value : CorruptValues]

InjectNames == {EE(b) : b \in BaseNames} \cup {"b1"}

\* mutant: a zero corrupt_value is let through
InjectOptsInvalid_Never(opts) == FALSE

\* lines 89-95
InjectOptsInvalid(opts) ==
    opts.error_type = VBDEV_IO_CORRUPT_DATA /\ opts.corrupt_value = 0

\* mutant: error_qd is not copied
InjectInfo_NoQd(opts) ==
    [error_type |-> opts.error_type, error_num |-> opts.error_num,
     error_qd |-> 0, corrupt_offset |-> opts.corrupt_offset,
     corrupt_value |-> opts.corrupt_value]

\* lines 123-127 and 134-138: the five assignments
InjectInfo(opts) ==
    [error_type |-> opts.error_type, error_num |-> opts.error_num,
     error_qd |-> opts.error_qd, corrupt_offset |-> opts.corrupt_offset,
     corrupt_value |-> opts.corrupt_value]

\* mutant: the clear zeroes the whole entries
InjectVector_ClearAll(error_vector, opts) ==
    IF opts.io_type = IO_TYPE_ALL
    THEN [i \in ErrorVectorIndex |-> InjectInfo(opts)]
    ELSE IF opts.io_type = 0
    THEN [i \in ErrorVectorIndex |-> ZeroInfo]
    ELSE [error_vector EXCEPT ![opts.io_type] = InjectInfo(opts)]

\* lines 121-139
InjectVector(error_vector, opts) ==
    IF opts.io_type = IO_TYPE_ALL
    THEN [i \in ErrorVectorIndex |-> InjectInfo(opts)]
    ELSE IF opts.io_type = 0
    THEN [i \in ErrorVectorIndex |-> [error_vector[i] EXCEPT !.error_num = 0]]
    ELSE [error_vector EXCEPT ![opts.io_type] = InjectInfo(opts)]

\* the value vbdev_error_inject_error returns
InjectRc(name, opts) ==
    IF InjectOptsInvalid(opts) THEN -EINVAL
    ELSE IF name \notin bdevs THEN -ENODEV
    ELSE IF name \notin DOMAIN g_error_disks THEN -ENODEV
    ELSE 0

vbdev_error_inject_error(name, opts) ==
    /\ n_injects' = n_injects + 1
    /\ LET rc == InjectRc(name, opts) IN
        /\ out' = [Out("inject") EXCEPT !.rc = rc]
        /\ g_error_disks' =
              IF rc = 0
              THEN [g_error_disks EXCEPT
                       ![name].error_vector = InjectVector(@, opts)]
              ELSE g_error_disks
    /\ UNCHANGED <<bdevs, g_error_config, io_inflight, bdev_ios, n_reqs>>

(***************************************************************************)
(* The I/O path                                                            *)
(***************************************************************************)
FaultIoTypes ==
    {SPDK_BDEV_IO_TYPE_READ, SPDK_BDEV_IO_TYPE_WRITE,
     SPDK_BDEV_IO_TYPE_UNMAP, SPDK_BDEV_IO_TYPE_FLUSH}
IoTypes == FaultIoTypes \cup {SPDK_BDEV_IO_TYPE_RESET, SPDK_BDEV_IO_TYPE_WRITE_ZEROES}

DataOf(type) ==
    IF type \in {SPDK_BDEV_IO_TYPE_READ, SPDK_BDEV_IO_TYPE_WRITE}
    THEN Payload ELSE NoPayload

\* mutant: the occurrence count is not looked at
vbdev_error_get_error_type_NoBudget(error_disk, io_type) ==
    IF io_type \notin FaultIoTypes THEN 0
    ELSE error_disk.error_vector[io_type].error_type

\* mutant: the switch on the I/O type is missing and the entry is looked up for
\* every type
vbdev_error_get_error_type_AnyType(error_disk, io_type) ==
    LET i == io_type % SPDK_BDEV_IO_TYPE_RESET IN
    IF error_disk.error_vector[i].error_num # 0
    THEN error_disk.error_vector[i].error_type
    ELSE 0

\* lines 159-176
vbdev_error_get_error_type(error_disk, io_type) ==
    IF io_type \notin FaultIoTypes THEN 0
    ELSE IF error_disk.error_vector[io_type].error_num # 0
    THEN error_disk.error_vector[io_type].error_type
    ELSE 0

\* The values the read of error_vector[io_type].error_qd at line 241 can give:
\* the array has SPDK_BDEV_IO_TYPE_RESET entries, and an I/O type past its
\* end reads whatever lies there.
ReadErrorQd(error_disk, io_type) ==
    IF io_type \in ErrorVectorIndex
    THEN {error_disk.error_vector[io_type].error_qd}
    ELSE {0, UINT64_MAX}

\* mutant: the threshold itself does not count as reached
GateErrorType_OffByOne(inflight, error_qd, error_type) ==
    IF inflight <= error_qd THEN 0 ELSE error_type

\* lines 241-243
GateErrorType(inflight, error_qd, error_type) ==
    IF inflight < error_qd THEN 0 ELSE error_type

\* mutant: the forwarded request is not counted
Inc64_Skip(x) == x

\* io_inflight++ and io_inflight-- on a uint64_t
Inc64(x) == IF x = UINT64_MAX THEN 0 ELSE x + 1
Dec64(x) == IF x = 0 THEN UINT64_MAX ELSE x - 1

\* mutant: the occurrence is not taken
DecErrorNum_None(error_disk, io_type) == error_disk

\* error_vector[io_type].error_num--
DecErrorNum(error_disk, io_type) ==
    [error_disk EXCEPT
        !.error_vector[io_type].error_num = @ - 1]

CorruptFor(error_disk, io_type, data) ==
    vbdev_error_corrupt_io_data(data,
        error_disk.error_vector[io_type].corrupt_offset,
        error_disk.error_vector[io_type].corrupt_value)

\* mutant: the pending queue is drained from its tail
ResetCompletions_Reversed(pending_ios, id) ==
    [i \in 1 .. Len(pending_ios) |->
        Completion(pending_ios[Len(pending_ios) + 1 - i], SPDK_BDEV_IO_STATUS_FAILED,
                   bdev_ios[pending_ios[Len(pending_ios) + 1 - i]].data)]
    \o <<Completion(id, SPDK_BDEV_IO_STATUS_SUCCESS, NoPayload)>>

\* lines 147-157: the completions vbdev_error_reset issues, in order
ResetCompletions(pending_ios, id) ==
    [i \in 1 .. Len(pending_ios) |->
        Completion(pending_ios[i], SPDK_BDEV_IO_STATUS_FAILED,
                   bdev_ios[pending_ios[i]].data)]
    \o <<Completion(id, SPDK_BDEV_IO_STATUS_SUCCESS, NoPayload)>>

\* mutant: the request is put at the head of the queue
PendingInsert_Head(pending_ios, id) == <<id>> \o pending_ios

\* line 255: TAILQ_INSERT_TAIL(&error_disk->pending_ios, bdev_io, module_link)
PendingInsert(pending_ios, id) == Append(pending_ios, id)

SeqRange(s) == {s[i] : i \in 1 .. Len(s)}
Without(f, ids) == [k \in (DOMAIN f) \ ids |-> f[k]]
With(f, id, v) == [k \in (DOMAIN f) \cup {id} |-> IF k = id THEN v ELSE f[k]]

\* mutant: the parked requests are completed and left in the queue
vbdev_error_reset_KeepQueue(disk, ch, id) ==
    LET d == g_error_disks[disk] IN
    /\ out' = [Out("submit") EXCEPT !.completed = ResetCompletions(d.pending_ios, id)]
    /\ UNCHANGED <<g_error_disks, bdev_ios, io_inflight>>

\* lines 147-157
vbdev_error_reset(disk, ch, id) ==
    LET d == g_error_disks[disk] IN
    /\ g_error_disks' = [g_error_disks EXCEPT ![disk].pending_ios = <<>>]
    /\ bdev_ios' = Without(bdev_ios, SeqRange(d.pending_ios))
    /\ out' = [Out("submit") EXCEPT !.completed = ResetCompletions(d.pending_ios, id)]
    /\ UNCHANGED io_inflight

\* lines 239-280, for a request that is not a reset; rc is what
\* spdk_bdev_part_submit_request_ext returns if it is called
SubmitNonReset(disk, ch, id, type, data, rc) ==
    LET d == g_error_disks[disk]
        inflight == io_inflight[disk][ch]
        o == Out("submit")
        io == [type |-> type, disk |-> disk, ch |-> ch, data |-> data, at |-> "base"]
    IN
    \E error_qd \in ReadErrorQd(d, type) :
      LET error_type ==
              GateErrorType(inflight, error_qd, vbdev_error_get_error_type(d, type))
      IN
      CASE error_type = VBDEV_IO_FAILURE ->
              /\ g_error_disks' = [g_error_disks EXCEPT ![disk] = DecErrorNum(d, type)]
              /\ out' = [o EXCEPT !.completed =
                            <<Completion(id, SPDK_BDEV_IO_STATUS_FAILED, data)>>]
              /\ UNCHANGED <<bdev_ios, io_inflight>>
        [] error_type = VBDEV_IO_NOMEM ->
              /\ g_error_disks' = [g_error_disks EXCEPT ![disk] = DecErrorNum(d, type)]
              /\ out' = [o EXCEPT !.completed =
                            <<Completion(id, SPDK_BDEV_IO_STATUS_NOMEM, data)>>]
              /\ UNCHANGED <<bdev_ios, io_inflight>>
        [] error_type = VBDEV_IO_PENDING ->
              /\ g_error_disks' =
                    [g_error_disks EXCEPT ![disk] =
                        [DecErrorNum(d, type) EXCEPT
                            !.pending_ios = PendingInsert(d.pending_ios, id)]]
              /\ bdev_ios' = With(bdev_ios, id, [io EXCEPT !.at = "pending"])
              /\ out' = o
              /\ UNCHANGED io_inflight
        [] error_type \in {VBDEV_IO_CORRUPT_DATA, 0} ->
              LET corrupt == error_type = VBDEV_IO_CORRUPT_DATA
                                /\ type = SPDK_BDEV_IO_TYPE_WRITE
                  sent == IF corrupt THEN CorruptFor(d, type, data) ELSE data
              IN
              /\ g_error_disks' =
                    IF corrupt
                    THEN [g_error_disks EXCEPT ![disk] = DecErrorNum(d, type)]
                    ELSE g_error_disks
              /\ bdev_ios' =
                    IF rc = 0
                    THEN With(bdev_ios, id, [io EXCEPT !.data = sent, !.at = "base"])
                    ELSE bdev_ios
              /\ out' = [o EXCEPT
                            !.forwarded = <<Forwarded(id, sent, rc)>>,
                            !.completed =
                                IF rc = 0 THEN <<>>
                                ELSE <<Completion(id, SPDK_BDEV_IO_STATUS_FAILED, sent)>>]
              /\ io_inflight' = [io_inflight EXCEPT ![disk][ch] = Inc64(@)]

vbdev_error_submit_request(disk, ch, type, rc) ==
    /\ disk \in DOMAIN g_error_disks
    /\ n_reqs' = n_reqs + 1
    /\ IF type = SPDK_BDEV_IO_TYPE_RESET
       THEN vbdev_error_reset(disk, ch, n_reqs + 1)
       ELSE SubmitNonReset(disk, ch, n_reqs + 1, type, DataOf(type), rc)
    /\ UNCHANGED <<bdevs, g_error_config, n_injects>>

\* lines 201-224: the completion callback of a forwarded request
vbdev_error_complete_request(id, success) ==
    /\ id \in DOMAIN bdev_ios
    /\ bdev_ios[id].at = "base"
    /\ LET io == bdev_ios[id]
           d == g_error_disks[io.disk]
           status == IF success THEN SPDK_BDEV_IO_STATUS_SUCCESS
                     ELSE SPDK_BDEV_IO_STATUS_FAILED
           corrupt == /\ success
                      /\ io.type = SPDK_BDEV_IO_TYPE_READ
                      /\ vbdev_error_get_error_type(d, io.type) = VBDEV_IO_CORRUPT_DATA
           data == IF corrupt THEN CorruptFor(d, io.type, io.data) ELSE io.data
       IN
       /\ io_inflight' = [io_inflight EXCEPT
                             ![io.disk][io.ch] = Dec64(@)]
       /\ g_error_disks' =
             IF corrupt
             THEN [g_error_disks EXCEPT ![io.disk] = DecErrorNum(d, io.type)]
             ELSE g_error_disks
       /\ bdev_ios' = Without(bdev_ios, {id})
       /\ out' = [Out("complete") EXCEPT !.completed = <<Completion(id, status, data)>>]
    /\ UNCHANGED <<bdevs, g_error_config, n_reqs, n_injects>>

(***************************************************************************)
(* The configuration list and the lifecycle of the error bdevs.            *)
(***************************************************************************)
\* lines 441-453: the position of the entry of base_bdev_name, 0 for NULL
vbdev_error_config_find_by_base_name(config, base_bdev_name) ==
    IF \E i \in 1 .. Len(config) : config[i].base_bdev = base_bdev_name
    THEN CHOOSE i \in 1 .. Len(config) :
            /\ config[i].base_bdev = base_bdev_name
            /\ \A j \in 1 .. (i - 1) : config[j].base_bdev # base_bdev_name
    ELSE 0

\* mutant: the entry is added without looking for one of the same name
vbdev_error_config_add_NoFind(config, base_bdev_name, uuid, nomem) ==
    IF nomem
    THEN [rc |-> -ENOMEM, config |-> config]
    ELSE [rc |-> 0,
          config |-> Append(config, [base_bdev |-> base_bdev_name, uuid |-> uuid])]

\* lines 455-484; nomem: calloc or strdup fails
vbdev_error_config_add(config, base_bdev_name, uuid, nomem) ==
    IF vbdev_error_config_find_by_base_name(config, base_bdev_name) # 0
    THEN [rc |-> -EEXIST, config |-> config]
    ELSE IF nomem
    THEN [rc |-> -ENOMEM, config |-> config]
    ELSE [rc |-> 0,
          config |-> Append(config, [base_bdev |-> base_bdev_name, uuid |-> uuid])]

\* lines 486-500
vbdev_error_config_remove(config, base_bdev_name) ==
    LET k == vbdev_error_config_find_by_base_name(config, base_bdev_name) IN
    IF k = 0
    THEN [rc |-> -ENOENT, config |-> config]
    ELSE [rc |-> 0,
          config |-> [i \in 1 .. (Len(config) - 1) |->
                         IF i < k THEN config[i] ELSE config[i + 1]]]

\* lines 335-392, on the registered bdevs and the error disks st; fail is the
\* error of a failing allocation or part construction, 0 for none.
\* spdk_bdev_part_base_construct_ext gives -ENODEV when no bdev is named
\* base_bdev_name; spdk_bdev_part_construct registers the bdev EE_<base>.
_vbdev_error_create(st, base_bdev_name, uuid, fail) ==
    IF base_bdev_name \notin st.bdevs
    THEN [rc |-> -ENODEV, st |-> st]
    ELSE IF fail # 0
    THEN [rc |-> fail, st |-> st]
    ELSE IF EE(base_bdev_name) \in st.bdevs
    THEN [rc |-> -EEXIST, st |-> st]
    ELSE [rc |-> 0,
          st |-> [bdevs |-> st.bdevs \cup {EE(base_bdev_name)},
                  disks |-> With(st.disks, EE(base_bdev_name),
                                 NewDisk(base_bdev_name, uuid))]]

\* the channels of the error disks: a new disk's channels start at 0
ChannelsFor(disks) ==
    [n \in DOMAIN disks |->
        IF n \in DOMAIN io_inflight THEN io_inflight[n] ELSE [t \in Threads |-> 0]]

ConstructFailures == {0, -ENOMEM}

\* mutant: a failed construction leaves the configuration entry behind
vbdev_error_create_NoRollback(base_bdev_name, uuid, nomem, fail) ==
    LET add == vbdev_error_config_add(g_error_config, base_bdev_name, uuid, nomem)
        made == _vbdev_error_create([bdevs |-> bdevs, disks |-> g_error_disks],
                                    base_bdev_name, uuid, fail)
        rc == IF add.rc # 0 THEN add.rc
              ELSE IF made.rc = -ENODEV THEN 0
              ELSE made.rc
    IN
    /\ g_error_config' = add.config
    /\ bdevs' = IF add.rc # 0 THEN bdevs ELSE made.st.bdevs
    /\ g_error_disks' = IF add.rc # 0 THEN g_error_disks ELSE made.st.disks
    /\ io_inflight' = ChannelsFor(g_error_disks')
    /\ out' = [Out("create") EXCEPT !.rc = rc]
    /\ UNCHANGED <<bdev_ios, n_reqs, n_injects>>

\* lines 394-416
vbdev_error_create(base_bdev_name, uuid, nomem, fail) ==
    LET add == vbdev_error_config_add(g_error_config, base_bdev_name, uuid, nomem)
        made == _vbdev_error_create([bdevs |-> bdevs, disks |-> g_error_disks],
                                    base_bdev_name, uuid, fail)
        rc == IF add.rc # 0 THEN add.rc
              ELSE IF made.rc = -ENODEV THEN 0
              ELSE made.rc
    IN
    /\ g_error_config' =
          IF add.rc # 0 THEN g_error_config
          ELSE IF made.rc # 0 /\ made.rc # -ENODEV
          THEN vbdev_error_config_remove(add.config, base_bdev_name).config
          ELSE add.config
    /\ bdevs' = IF add.rc # 0 THEN bdevs ELSE made.st.bdevs
    /\ g_error_disks' = IF add.rc # 0 THEN g_error_disks ELSE made.st.disks
    /\ io_inflight' = ChannelsFor(g_error_disks')
    /\ out' = [Out("create") EXCEPT !.rc = rc]
    /\ UNCHANGED <<bdev_ios, n_reqs, n_injects>>

\* mutant: the examine callback looks up no configuration
vbdev_error_examine_NoLookup(registered, bdev, fail) ==
    /\ bdevs' = registered
    /\ g_error_disks' = g_error_disks

\* lines 514-530, called by the bdev layer for the newly registered bdev
vbdev_error_examine(registered, bdev, fail) ==
    LET k == vbdev_error_config_find_by_base_name(g_error_config, bdev)
        made == _vbdev_error_create([bdevs |-> registered, disks |-> g_error_disks],
                                    bdev, g_error_config[k].uuid, fail)
    IN
    IF k # 0
    THEN /\ bdevs' = made.st.bdevs
         /\ g_error_disks' = made.st.disks
    ELSE /\ bdevs' = registered
         /\ g_error_disks' = g_error_disks

\* A bdev named bdev is registered and the bdev layer lets every module
\* examine it.
BdevRegister(bdev, fail) ==
    /\ bdev \notin bdevs
    /\ vbdev_error_examine(bdevs \cup {bdev}, bdev, fail)
    /\ io_inflight' = ChannelsFor(g_error_disks')
    /\ out' = Out("register")
    /\ UNCHANGED <<g_error_config, bdev_ios, n_reqs, n_injects>>

\* mutant: the destructor leaves the configuration list alone
vbdev_error_destruct_KeepConfig(st, disk) ==
    [bdevs |-> st.bdevs \ {disk},
     config |-> st.config,
     disks |-> Without(st.disks, {disk}),
     destructed |-> Append(st.destructed, disk)]

\* lines 283-296, with the unregistration of the error bdev that calls it:
\* the state [bdevs, config, disks, destructed] without the error disk
vbdev_error_destruct(st, disk) ==
    [bdevs |-> st.bdevs \ {disk},
     config |-> vbdev_error_config_remove(st.config, st.disks[disk].base).config,
     disks |-> Without(st.disks, {disk}),
     destructed |-> Append(st.destructed, disk)]

LifeState ==
    [bdevs |-> bdevs, config |-> g_error_config, disks |-> g_error_disks,
     destructed |-> <<>>]

\* lines 418-427; spdk_bdev_unregister_by_name gives -ENODEV unless
\* error_vbdev_name names a bdev of this module
vbdev_error_delete(error_vbdev_name) ==
    LET rc == IF error_vbdev_name \in bdevs /\ error_vbdev_name \in DOMAIN g_error_disks
              THEN 0 ELSE -ENODEV
        st == IF rc = 0 THEN vbdev_error_destruct(LifeState, error_vbdev_name)
              ELSE LifeState
    IN
    /\ bdevs' = st.bdevs
    /\ g_error_config' = st.config
    /\ g_error_disks' = st.disks
    /\ io_inflight' = ChannelsFor(st.disks)
    /\ out' = [Out("delete") EXCEPT
                  !.rc = rc,
                  !.destructed = IF rc = 0 THEN <<error_vbdev_name>> ELSE <<>>]
    /\ UNCHANGED <<bdev_ios, n_reqs, n_injects>>

\* spdk_bdev_part_base_hotremove: every part on the base bdev is unregistered,
\* which destructs it
RECURSIVE spdk_bdev_part_base_hotremove(_, _)
spdk_bdev_part_base_hotremove(st, base) ==
    IF \E n \in DOMAIN st.disks : st.disks[n].base = base
    THEN spdk_bdev_part_base_hotremove(
             vbdev_error_destruct(st, CHOOSE n \in DOMAIN st.disks : st.disks[n].base = base),
             base)
    ELSE st

\* lines 327-333: the base bdev goes away
vbdev_error_base_bdev_hotremove_cb(base) ==
    /\ base \in bdevs
    /\ base \in BaseNames
    /\ LET st == spdk_bdev_part_base_hotremove(LifeState, base) IN
        /\ bdevs' = st.bdevs \ {base}
        /\ g_error_config' = st.config
        /\ g_error_disks' = st.disks
        /\ io_inflight' = ChannelsFor(st.disks)
        /\ out' = [Out("hotremove") EXCEPT !.destructed = st.destructed]
    /\ UNCHANGED <<bdev_ios, n_reqs, n_injects>>

(***************************************************************************)
(* The I/O specification: the error bdev of every base bdev of IoBases has *)
(* been created; injections, requests and completions follow.              *)
(***************************************************************************)
IoBases == {"b1"}

\* no call is in progress: every handler of the specifications below runs from
\* its entry to its return in one step
NoCall == [at |-> "idle"]

Init ==
    /\ bdevs = BaseNames \cup {EE(b) : b \in IoBases}
    /\ g_error_config = <<[base_bdev |-> "b1", uuid |-> 0]>>
    /\ g_error_disks = [n \in {EE(b) : b \in IoBases} |->
                           NewDisk(CHOOSE b \in IoBases : EE(b) = n, 0)]
    /\ io_inflight = [n \in {EE(b) : b \in IoBases} |-> [t \in Threads |-> 0]]
    /\ bdev_ios = <<>>
    /\ n_reqs = 0
    /\ n_injects = 0
    /\ out = NoOut
    /\ pc = NoCall

\* The base bdev takes at most MaxInflight requests at a time and rejects the
\* rest; it may reject a request at any time.
AtBase == {id \in DOMAIN bdev_ios : bdev_ios[id].at = "base"}
SubmitRcs == IF Cardinality(AtBase) < MaxInflight THEN {0, -ENOMEM} ELSE {-ENOMEM}

Inject(max) ==
    /\ n_injects < max
    /\ \E name \in InjectNames, opts \in InjectOpts : vbdev_error_inject_error(name, opts)
    /\ UNCHANGED pc
Submit(max) ==
    /\ n_reqs < max
    /\ \E disk \in DOMAIN g_error_disks, ch \in Threads, type \in IoTypes, rc \in SubmitRcs :
          vbdev_error_submit_request(disk, ch, type, rc)
    /\ UNCHANGED pc
Complete ==
    /\ \E id \in DOMAIN bdev_ios, success \in BOOLEAN :
          vbdev_error_complete_request(id, success)
    /\ UNCHANGED pc

Next == Inject(MaxInjects) \/ Submit(MaxReqs) \/ Complete

Spec == Init /\ [][Next]_vars

\* The same program with more injections and fewer requests.
NextCfg == Inject(MaxCfgInjects) \/ Submit(MaxCfgReqs) \/ Complete

SpecCfg == Init /\ [][NextCfg]_vars

(***************************************************************************)
(* The lifecycle specification: base bdevs come and go, error bdevs are    *)
(* created and deleted.                                                    *)
(***************************************************************************)
InitLife ==
    /\ bdevs = {}
    /\ g_error_config = <<>>
    /\ g_error_disks = <<>>
    /\ io_inflight = <<>>
    /\ bdev_ios = <<>>
    /\ n_reqs = 0
    /\ n_injects = 0
    /\ out = NoOut
    /\ pc = NoCall

Register ==
    /\ \E b \in BaseNames, fail \in ConstructFailures : BdevRegister(b, fail)
    /\ UNCHANGED pc
Create ==
    /\ \E b \in BaseNames, uuid \in Uuids, nomem \in BOOLEAN, fail \in ConstructFailures :
          vbdev_error_create(b, uuid, nomem, fail)
    /\ UNCHANGED pc
Delete ==
    /\ \E n \in {EE(b) : b \in BaseNames} \cup BaseNames : vbdev_error_delete(n)
    /\ UNCHANGED pc
HotRemove ==
    /\ \E b \in BaseNames : vbdev_error_base_bdev_hotremove_cb(b)
    /\ UNCHANGED pc

NextLife == Register \/ Create \/ Delete \/ HotRemove

SpecLife == InitLife /\ [][NextLife]_vars

(***************************************************************************)
(* The data specification: reads with buffer lists of every shape up to    *)
(* MaxIovs buffers of up to MaxIovLen bytes are submitted to EE_b1 and      *)
(* completed by the base bdev, after an injection on the reads.            *)
(***************************************************************************)
\* the byte the base bdev stores at logical position p of a read
ByteAt(p) == 17 * p

RECURSIVE SumLens(_, _)
SumLens(lens, n) == IF n = 0 THEN 0 ELSE lens[n] + SumLens(lens, n - 1)

LenLists == UNION {[1 .. n -> 0 .. MaxIovLen] : n \in 0 .. MaxIovs}

\* a buffer list with the buffer lengths lens; with first_null the first
\* buffer is unset
DataFor(lens, first_null) ==
    [iovs_null |-> FALSE,
     iovs |-> [i \in 1 .. Len(lens) |->
                  IF i = 1 /\ first_null
                  THEN [iov_base_null |-> TRUE, iov_base |-> <<>>, iov_len |-> lens[i]]
                  ELSE [iov_base_null |-> FALSE,
                        iov_base |-> [j \in 1 .. lens[i] |-> ByteAt(SumLens(lens, i - 1) + j)],
                        iov_len |-> lens[i]]]]

DataInputs ==
    {NoPayload}
    \cup {DataFor(lens, FALSE) : lens \in LenLists}
    \cup {DataFor(lens, TRUE) : lens \in {l \in LenLists : Len(l) > 0}}

DataCorruptValues == {1, 255}
DataOpts ==
    [io_type : {SPDK_BDEV_IO_TYPE_READ},
     error_type : {VBDEV_IO_FAILURE, VBDEV_IO_CORRUPT_DATA},
     error_num : {0, 1}, error_qd : {0, MaxQd + 1},
     corrupt_offset : 0 .. (MaxIovs * MaxIovLen), corrupt_value : DataCorruptValues]

\* lines 226-281 for a read with the buffers data
SubmitRead(disk, ch, data, rc) ==
    /\ disk \in DOMAIN g_error_disks
    /\ n_reqs' = n_reqs + 1
    /\ SubmitNonReset(disk, ch, n_reqs + 1, SPDK_BDEV_IO_TYPE_READ, data, rc)
    /\ UNCHANGED <<bdevs, g_error_config, n_injects>>

InjectData ==
    /\ n_injects < MaxInjects
    /\ \E opts \in DataOpts : vbdev_error_inject_error(EE("b1"), opts)
    /\ UNCHANGED pc
SubmitData ==
    /\ n_reqs < MaxDataReqs
    /\ \E data \in DataInputs, rc \in {0, -ENOMEM} : SubmitRead(EE("b1"), 1, data, rc)
    /\ UNCHANGED pc

NextData == InjectData \/ SubmitData \/ Complete

SpecData == Init /\ [][NextData]_vars

(***************************************************************************)
(* The threaded specification.  Each I/O channel of the error disk EE_b1   *)
(* belongs to one thread, which runs vbdev_error_submit_request and the    *)
(* completion callbacks of that channel one after the other;               *)
(* vbdev_error_inject_error runs on a thread of its own and is the only    *)
(* function that takes g_vbdev_error_mutex.  The error disk is shared, so  *)
(* the reads and writes of error_vector by different threads interleave:   *)
(* a submission is the sequence of its accesses to error_vector and        *)
(* io_inflight, an injection the sequence of its field assignments.        *)
(* pc holds, beside the position and the locals of each call, what the     *)
(* properties need to know of the past: stamp counts the assignments an    *)
(* injection has made to each entry, hist lists the error vectors as the   *)
(* injections meant them, halted says that an assertion has failed.        *)
(***************************************************************************)
MtDisk == EE("b1")
MtIoTypes == {SPDK_BDEV_IO_TYPE_READ, SPDK_BDEV_IO_TYPE_WRITE}

\* the injection made before the threads start
MtFirstOpts ==
    [io_type |-> SPDK_BDEV_IO_TYPE_WRITE, error_type |-> VBDEV_IO_FAILURE,
     error_num |-> 1, error_qd |-> 0, corrupt_offset |-> 0, corrupt_value |-> 0]

\* the injections made while the threads run
MtInjectOpts ==
    {opts \in InjectOpts :
        /\ opts.io_type \in {0, SPDK_BDEV_IO_TYPE_WRITE}
        /\ opts.error_type = VBDEV_IO_PENDING
        /\ opts.error_num = 1
        /\ opts.error_qd = MaxQd}

\* a thread outside vbdev_error_submit_request
ThreadIdle ==
    [at |-> "idle", id |-> 0, type |-> 0, num |-> 0, etype |-> 0, qd |-> 0,
     error_type |-> 0, stamp |-> 0]
InjectIdle == [at |-> "idle", opts |-> MtFirstOpts, i |-> 0, k |-> 0]

InitMT ==
    /\ bdevs = BaseNames \cup {MtDisk}
    /\ g_error_config = <<[base_bdev |-> "b1", uuid |-> 0]>>
    /\ g_error_disks =
          [n \in {MtDisk} |->
              [NewDisk("b1", 0) EXCEPT
                  !.error_vector = InjectVector(@, MtFirstOpts)]]
    /\ io_inflight = [n \in {MtDisk} |-> [t \in Threads |-> 0]]
    /\ bdev_ios = <<>>
    /\ n_reqs = 0
    /\ n_injects = 1
    /\ out = [Out("inject") EXCEPT !.rc = 0]
    /\ pc = [thr |-> [t \in Threads |-> ThreadIdle],
             inj |-> InjectIdle,
             stamp |-> [i \in ErrorVectorIndex |-> 0],
             hist |-> <<InjectVector(NewDisk("b1", 0).error_vector, MtFirstOpts)>>,
             halted |-> FALSE]

\* lines 234-239 and 162-172: the request is no reset, its type has an entry,
\* and vbdev_error_get_error_type reads error_num of the entry
MtSubmitBegin(t, type) ==
    /\ ~pc.halted
    /\ pc.thr[t].at = "idle"
    /\ n_reqs < MaxMtReqs
    /\ n_reqs' = n_reqs + 1
    /\ LET num == g_error_disks[MtDisk].error_vector[type].error_num IN
        pc' = [pc EXCEPT !.thr[t] =
                  [ThreadIdle EXCEPT
                      !.at = IF num # 0 THEN "read_type" ELSE "gate",
                      !.id = n_reqs + 1, !.type = type, !.num = num,
                      !.stamp = pc.stamp[type]]]
    /\ UNCHANGED <<bdevs, g_error_config, g_error_disks, io_inflight, bdev_ios,
                   n_injects, out>>

\* line 173: error_num was not 0 and vbdev_error_get_error_type reads error_type
MtReadType(t) ==
    /\ ~pc.halted
    /\ pc.thr[t].at = "read_type"
    /\ LET e == g_error_disks[MtDisk].error_vector[pc.thr[t].type].error_type IN
        pc' = [pc EXCEPT !.thr[t].at = "gate", !.thr[t].etype = e,
                         !.thr[t].error_type = e]
    /\ UNCHANGED <<bdevs, g_error_config, g_error_disks, io_inflight, bdev_ios,
                   n_reqs, n_injects, out>>

\* lines 241-243: error_qd is read and compared with io_inflight of the channel
MtGate(t) ==
    /\ ~pc.halted
    /\ pc.thr[t].at = "gate"
    /\ LET qd == g_error_disks[MtDisk].error_vector[pc.thr[t].type].error_qd IN
        pc' = [pc EXCEPT
                  !.thr[t].at = "act", !.thr[t].qd = qd,
                  !.thr[t].error_type =
                      GateErrorType(io_inflight[MtDisk][t], qd, pc.thr[t].error_type)]
    /\ UNCHANGED <<bdevs, g_error_config, g_error_disks, io_inflight, bdev_ios,
                   n_reqs, n_injects, out>>

\* lines 245-274: the switch on the error type the thread has arrived at, up to
\* the call of spdk_bdev_part_submit_request_ext and the completion of a
\* request the base bdev rejects
MtAct(t, rc) ==
    /\ ~pc.halted
    /\ pc.thr[t].at = "act"
    /\ LET d == g_error_disks[MtDisk]
           id == pc.thr[t].id
           type == pc.thr[t].type
           data == DataOf(type)
           error_type == pc.thr[t].error_type
           o == Out("submit")
           io == [type |-> type, disk |-> MtDisk, ch |-> t, data |-> data, at |-> "base"]
       IN
       CASE error_type = VBDEV_IO_FAILURE ->
              /\ g_error_disks' = [g_error_disks EXCEPT ![MtDisk] = DecErrorNum(d, type)]
              /\ out' = [o EXCEPT !.completed =
                            <<Completion(id, SPDK_BDEV_IO_STATUS_FAILED, data)>>]
              /\ pc' = [pc EXCEPT !.thr[t] = ThreadIdle]
              /\ UNCHANGED bdev_ios
         [] error_type = VBDEV_IO_NOMEM ->
              /\ g_error_disks' = [g_error_disks EXCEPT ![MtDisk] = DecErrorNum(d, type)]
              /\ out' = [o EXCEPT !.completed =
                            <<Completion(id, SPDK_BDEV_IO_STATUS_NOMEM, data)>>]
              /\ pc' = [pc EXCEPT !.thr[t] = ThreadIdle]
              /\ UNCHANGED bdev_ios
         [] error_type = VBDEV_IO_PENDING ->
              /\ g_error_disks' =
                    [g_error_disks EXCEPT ![MtDisk] =
                        [DecErrorNum(d, type) EXCEPT
                            !.pending_ios = PendingInsert(d.pending_ios, id)]]
              /\ bdev_ios' = With(bdev_ios, id, [io EXCEPT !.at = "pending"])
              /\ out' = o
              /\ pc' = [pc EXCEPT !.thr[t] = ThreadIdle]
         [] error_type \in {VBDEV_IO_CORRUPT_DATA, 0} ->
              LET corrupt == error_type = VBDEV_IO_CORRUPT_DATA
                                /\ type = SPDK_BDEV_IO_TYPE_WRITE
                  sent == IF corrupt THEN CorruptFor(d, type, data) ELSE data
              IN
              /\ g_error_disks' =
                    IF corrupt
                    THEN [g_error_disks EXCEPT ![MtDisk] = DecErrorNum(d, type)]
                    ELSE g_error_disks
              /\ bdev_ios' =
                    IF rc = 0
                    THEN With(bdev_ios, id, [io EXCEPT !.data = sent, !.at = "base"])
                    ELSE bdev_ios
              /\ out' = [o EXCEPT
                            !.forwarded = <<Forwarded(id, sent, rc)>>,
                            !.completed =
                                IF rc = 0 THEN <<>>
                                ELSE <<Completion(id, SPDK_BDEV_IO_STATUS_FAILED, sent)>>]
              /\ pc' = [pc EXCEPT !.thr[t].at = "inc"]
    /\ UNCHANGED <<bdevs, g_error_config, io_inflight, n_reqs, n_injects>>

\* line 275: ch->io_inflight++
MtInc(t) ==
    /\ ~pc.halted
    /\ pc.thr[t].at = "inc"
    /\ io_inflight' = [io_inflight EXCEPT ![MtDisk][t] = Inc64(@)]
    /\ pc' = [pc EXCEPT !.thr[t] = ThreadIdle]
    /\ UNCHANGED <<bdevs, g_error_config, g_error_disks, bdev_ios, n_reqs,
                   n_injects, out>>

\* lines 201-224 on the thread of the request's channel.  ndebug: the build
\* leaves assert() out; otherwise a failing assert(ch->io_inflight > 0) ends
\* the process.
MtCallback(id, success, ndebug) ==
    IF io_inflight[bdev_ios[id].disk][bdev_ios[id].ch] = 0 /\ ~ndebug
    THEN /\ pc' = [pc EXCEPT !.halted = TRUE]
         /\ out' = Out("abort")
         /\ UNCHANGED <<bdevs, g_error_config, g_error_disks, io_inflight, bdev_ios,
                        n_reqs, n_injects>>
    ELSE /\ vbdev_error_complete_request(id, success)
         /\ UNCHANGED pc

\* the base bdev completes a request after the submission that forwarded it has
\* returned
MtComplete(id, success, ndebug) ==
    /\ ~pc.halted
    /\ id \in DOMAIN bdev_ios
    /\ bdev_ios[id].at = "base"
    /\ pc.thr[bdev_ios[id].ch].at = "idle"
    /\ MtCallback(id, success, ndebug)

\* the base bdev completes a request inside spdk_bdev_part_submit_request_ext,
\* before line 275 of the submission that forwards it
MtCompleteInline(id, success, ndebug) ==
    /\ ~pc.halted
    /\ id \in DOMAIN bdev_ios
    /\ bdev_ios[id].at = "base"
    /\ pc.thr[bdev_ios[id].ch].at = "inc"
    /\ pc.thr[bdev_ios[id].ch].id = id
    /\ MtCallback(id, success, ndebug)

\* lines 89-119: the options are valid, the mutex is taken and the error disk
\* found
MtInjectBegin(opts) ==
    /\ ~pc.halted
    /\ pc.inj.at = "idle"
    /\ n_injects < 1 + MaxMtInjects
    /\ InjectRc(MtDisk, opts) = 0
    /\ n_injects' = n_injects + 1
    /\ pc' = [pc EXCEPT
                 !.inj = [at |-> "write", opts |-> opts,
                          i |-> IF opts.io_type = 0 THEN 0 ELSE opts.io_type,
                          k |-> 1],
                 !.hist = Append(@, InjectVector(pc.hist[Len(pc.hist)], opts))]
    /\ UNCHANGED <<bdevs, g_error_config, g_error_disks, io_inflight, bdev_ios,
                   n_reqs, out>>

\* the k-th of the assignments of lines 134-138
SetField(info, k, opts) ==
    CASE k = 1 -> [info EXCEPT !.error_type = opts.error_type]
      [] k = 2 -> [info EXCEPT !.error_num = opts.error_num]
      [] k = 3 -> [info EXCEPT !.error_qd = opts.error_qd]
      [] k = 4 -> [info EXCEPT !.corrupt_offset = opts.corrupt_offset]
      [] k = 5 -> [info EXCEPT !.corrupt_value = opts.corrupt_value]

\* one assignment of lines 129-139: error_num = 0 of the next entry (io_type 0)
\* or the next field of the entry of io_type; after the last one the mutex is
\* released and the call returns 0
MtInjectWrite ==
    /\ ~pc.halted
    /\ pc.inj.at = "write"
    /\ LET opts == pc.inj.opts
           i == pc.inj.i
           k == pc.inj.k
           clear == opts.io_type = 0
           last == IF clear THEN i = SPDK_BDEV_IO_TYPE_RESET - 1 ELSE k = 5
       IN
       /\ g_error_disks' =
             [g_error_disks EXCEPT
                 ![MtDisk].error_vector[i] =
                     IF clear THEN [@ EXCEPT !.error_num = 0]
                     ELSE SetField(@, k, opts)]
       /\ pc' = [pc EXCEPT
                    !.stamp[i] = @ + 1,
                    !.inj = IF last THEN InjectIdle
                            ELSE IF clear THEN [@ EXCEPT !.i = i + 1]
                            ELSE [@ EXCEPT !.k = k + 1]]
       /\ out' = IF last THEN [Out("inject") EXCEPT !.rc = 0] ELSE out
    /\ UNCHANGED <<bdevs, g_error_config, io_inflight, bdev_ios, n_reqs, n_injects>>

SubmitBegin == \E t \in Threads, type \in MtIoTypes : MtSubmitBegin(t, type)
SubmitReadType == \E t \in Threads : MtReadType(t)
SubmitGate == \E t \in Threads : MtGate(t)
SubmitAct == \E t \in Threads, rc \in SubmitRcs : MtAct(t, rc)
SubmitInc == \E t \in Threads : MtInc(t)
CompleteLater ==
    \E id \in DOMAIN bdev_ios, success \in BOOLEAN, ndebug \in BOOLEAN :
        MtComplete(id, success, ndebug)
CompleteInline ==
    \E id \in DOMAIN bdev_ios, success \in BOOLEAN, ndebug \in BOOLEAN :
        MtCompleteInline(id, success, ndebug)
InjectBegin == \E opts \in MtInjectOpts : MtInjectBegin(opts)

NextMT ==
    \/ SubmitBegin \/ SubmitReadType \/ SubmitGate \/ SubmitAct \/ SubmitInc
    \/ CompleteLater \/ CompleteInline
    \/ InjectBegin \/ MtInjectWrite

SpecMT == InitMT /\ [][NextMT]_vars

(***************************************************************************)
(* Vocabulary of the properties.                                           *)
(***************************************************************************)
SubmitRcValues == {0, -ENOMEM}

\* the bytes of a buffer list, in order
RECURSIVE FlattenFrom(_, _)
FlattenFrom(iovs, i) ==
    IF i > Len(iovs) THEN <<>> ELSE iovs[i].iov_base \o FlattenFrom(iovs, i + 1)
Flatten(data) == IF data.iovs_null THEN <<>> ELSE FlattenFrom(data.iovs, 1)

\* after differs from before in the byte at logical offset off, and only there
CorruptedAt(before, after, off) ==
    /\ Len(Flatten(after)) = Len(Flatten(before))
    /\ \A i \in 1 .. Len(Flatten(before)) :
          (Flatten(after)[i] # Flatten(before)[i]) <=> (i = off + 1)

Statuses(completed) == [i \in 1 .. Len(completed) |-> <<completed[i].io, completed[i].status>>]

\* the step hands request id to the base bdev with the bytes data, and does
\* nothing else to it
ForwardedAs(id, data) ==
    /\ Len(out'.forwarded) = 1
    /\ out'.forwarded[1].io = id
    /\ out'.forwarded[1].data = data
    /\ IF out'.forwarded[1].rc = 0
       THEN /\ out'.completed = <<>>
            /\ id \in DOMAIN bdev_ios'
            /\ bdev_ios'[id].at = "base"
       ELSE /\ Statuses(out'.completed) = <<<<id, SPDK_BDEV_IO_STATUS_FAILED>>>>
            /\ id \notin DOMAIN bdev_ios'

\* the step completes request id at once with status and does not forward it
CompletedAt(id, status) ==
    /\ Statuses(out'.completed) = <<<<id, status>>>>
    /\ out'.forwarded = <<>>
    /\ id \notin DOMAIN bdev_ios'

\* the step parks request id at the tail of the pending queue of disk
ParkedAt(disk, id) ==
    /\ out'.completed = <<>>
    /\ out'.forwarded = <<>>
    /\ g_error_disks'[disk].pending_ios = Append(g_error_disks[disk].pending_ios, id)
    /\ id \in DOMAIN bdev_ios'
    /\ bdev_ios'[id].at = "pending"

\* the fault vector entry of K on disk loses exactly one occurrence
SpentOne(disk, K) ==
    g_error_disks'[disk].error_vector =
        [g_error_disks[disk].error_vector EXCEPT ![K].error_num = @ - 1]

\* the step is a call of vbdev_error_submit_request(disk, ch, type): only such a
\* call counts a request
IsSubmit(disk, ch, type) ==
    /\ n_reqs' # n_reqs
    /\ \E rc \in SubmitRcValues : vbdev_error_submit_request(disk, ch, type, rc)
\* the step is a call of vbdev_error_inject_error: only such a call counts one
IsInject == n_injects' # n_injects
IsInjectOf(name, opts) == IsInject /\ vbdev_error_inject_error(name, opts)
\* the step is the completion callback of request id
IsComplete(id) ==
    /\ n_reqs' = n_reqs
    /\ n_injects' = n_injects
    /\ \E success \in BOOLEAN : vbdev_error_complete_request(id, success)

(***************************************************************************)
(* C1                                                                      *)
(***************************************************************************)
\* What a request of kind K meets at submission when the entry of K has
\* error_qd = 0: with occurrences left and the error type T it is failed
\* (T = failure), given NOMEM (T = nomem), parked (T = pending) or, for a write,
\* corrupted (T = corrupt data), and just one occurrence is spent; with no
\* occurrence left it is forwarded with its bytes untouched and error_num stays 0.
C1SubmitPost(disk, K, id, corruptAll) ==
    LET info == g_error_disks[disk].error_vector[K]
        data == DataOf(K)
        total == Len(Flatten(data))
    IN
    /\ (info.error_num > 0 /\ info.error_type = VBDEV_IO_FAILURE) =>
          CompletedAt(id, SPDK_BDEV_IO_STATUS_FAILED) /\ SpentOne(disk, K)
    /\ (info.error_num > 0 /\ info.error_type = VBDEV_IO_NOMEM) =>
          CompletedAt(id, SPDK_BDEV_IO_STATUS_NOMEM) /\ SpentOne(disk, K)
    /\ (info.error_num > 0 /\ info.error_type = VBDEV_IO_PENDING) =>
          ParkedAt(disk, id) /\ SpentOne(disk, K)
    /\ (info.error_num > 0 /\ info.error_type = VBDEV_IO_CORRUPT_DATA
            /\ (corruptAll \/ K = SPDK_BDEV_IO_TYPE_WRITE)) =>
          /\ \E sent \in {out'.forwarded[i].data : i \in 1 .. Len(out'.forwarded)} :
                /\ ForwardedAs(id, sent)
                /\ IF info.corrupt_offset < total
                   THEN CorruptedAt(data, sent, info.corrupt_offset)
                   ELSE ~corruptAll /\ sent = data
          /\ SpentOne(disk, K)
    /\ info.error_num = 0 =>
          /\ ForwardedAs(id, data)
          /\ g_error_disks'[disk] = g_error_disks[disk]

\* C1 as amended: after an injection of N > 0 occurrences with error_qd = 0 on K,
\* each following request of kind K spends one occurrence and is failed, given
\* NOMEM, parked or (a write under corrupt data) corrupted while occurrences are
\* left, the request that finds error_num = 0 is forwarded untouched, and between
\* injections nothing but such a request of kind K changes the entry of K: so just
\* the next N requests of kind K are affected and request N + 1 is forwarded.
\* Corrupt data on a read, unmap or flush does not touch the submission.
C1_NextNAffected ==
    [][\A disk \in DOMAIN g_error_disks, K \in FaultIoTypes :
          LET info == g_error_disks[disk].error_vector[K] IN
          /\ \A ch \in Threads :
                (IsSubmit(disk, ch, K) /\ info.error_qd = 0) =>
                    /\ C1SubmitPost(disk, K, n_reqs', FALSE)
                    /\ (info.error_type = VBDEV_IO_CORRUPT_DATA
                            /\ K # SPDK_BDEV_IO_TYPE_WRITE) =>
                          /\ ForwardedAs(n_reqs', DataOf(K))
                          /\ g_error_disks'[disk] = g_error_disks[disk]
          /\ (/\ ~IsInject
              /\ (info.error_type # VBDEV_IO_CORRUPT_DATA \/ K # SPDK_BDEV_IO_TYPE_READ)
              /\ \A ch \in Threads : ~IsSubmit(disk, ch, K)) =>
                g_error_disks'[disk].error_vector[K] = info
    ]_vars

\* C1 as stated: under every error type, corrupt data included, each request of
\* every kind K that finds occurrences left is affected and spends one.
C1_Original ==
    [][\A disk \in DOMAIN g_error_disks, K \in FaultIoTypes, ch \in Threads :
          (IsSubmit(disk, ch, K) /\ g_error_disks[disk].error_vector[K].error_qd = 0) =>
              C1SubmitPost(disk, K, n_reqs', TRUE)
    ]_vars

\* Every occurrence of an injection of MaxErrorNum failures on writes is spent
\* and the next write has been forwarded untouched.
C1_Witness ==
    /\ n_injects = 1
    /\ n_reqs = MaxErrorNum + 1
    /\ g_error_disks[EE("b1")].error_vector[SPDK_BDEV_IO_TYPE_WRITE] =
          [error_type |-> VBDEV_IO_FAILURE, error_num |-> 0, error_qd |-> 0,
           corrupt_offset |-> 0, corrupt_value |-> 0]
    /\ out.forwarded = <<Forwarded(n_reqs, Payload, 0)>>
    /\ io_inflight[EE("b1")][1] = 1
    /\ io_inflight[EE("b1")][2] = 0

(***************************************************************************)
(* C2                                                                      *)
(***************************************************************************)
\* C2: a request of kind K that arrives on a channel whose io_inflight is below
\* error_qd of K is forwarded with its bytes untouched, as with no fault, and the
\* error disk (error_num included) stays as it was; a request that arrives with
\* io_inflight at or above error_qd meets the fault of K, and a submission that
\* does anything else than forward the request untouched had io_inflight at or
\* above error_qd and spends exactly one occurrence.
C2_ThresholdGate ==
    [][\A disk \in DOMAIN g_error_disks, K \in FaultIoTypes, ch \in Threads :
          LET info == g_error_disks[disk].error_vector[K]
              inflight == io_inflight[disk][ch]
              untouched == /\ ForwardedAs(n_reqs', DataOf(K))
                           /\ g_error_disks'[disk] = g_error_disks[disk]
          IN
          IsSubmit(disk, ch, K) =>
              /\ inflight < info.error_qd => untouched
              /\ inflight >= info.error_qd => C1SubmitPost(disk, K, n_reqs', FALSE)
              /\ ~untouched => inflight >= info.error_qd /\ SpentOne(disk, K)
    ]_vars

\* With an occurrence left and error_qd = MaxQd > 0, a write that arrived on an
\* idle channel has just been forwarded untouched, the occurrence unspent.
C2_Witness ==
    /\ out.op = "submit"
    /\ n_injects = 1
    /\ n_reqs = 1
    /\ g_error_disks[EE("b1")].error_vector[SPDK_BDEV_IO_TYPE_WRITE] =
          [error_type |-> VBDEV_IO_FAILURE, error_num |-> 1, error_qd |-> MaxQd,
           corrupt_offset |-> 0, corrupt_value |-> 0]
    /\ out.forwarded = <<Forwarded(1, Payload, 0)>>
    /\ io_inflight[EE("b1")][1] = 1

(***************************************************************************)
(* C3                                                                      *)
(***************************************************************************)
\* C3: a reset on a disk whose pending queue holds p1..pn completes p1..pn as
\* failed in that order and then the reset itself as success, forwards nothing,
\* leaves the queue empty and p1..pn no longer outstanding, and changes neither
\* the fault vector nor any io_inflight nor any other outstanding request.
C3_Reset ==
    [][\A disk \in DOMAIN g_error_disks, ch \in Threads :
          LET pending == g_error_disks[disk].pending_ios IN
          IsSubmit(disk, ch, SPDK_BDEV_IO_TYPE_RESET) =>
              /\ Statuses(out'.completed) =
                    [i \in 1 .. Len(pending) |-> <<pending[i], SPDK_BDEV_IO_STATUS_FAILED>>]
                    \o <<<<n_reqs', SPDK_BDEV_IO_STATUS_SUCCESS>>>>
              /\ out'.forwarded = <<>>
              /\ g_error_disks'[disk].pending_ios = <<>>
              /\ g_error_disks'[disk].error_vector = g_error_disks[disk].error_vector
              /\ io_inflight' = io_inflight
              /\ DOMAIN bdev_ios' = (DOMAIN bdev_ios) \ SeqRange(pending)
              /\ \A id \in DOMAIN bdev_ios' : bdev_ios'[id] = bdev_ios[id]
    ]_vars

\* A reset has just failed two parked requests in the order they were parked
\* and completed itself as success.
C3_Witness ==
    /\ out.op = "submit"
    /\ Len(out.completed) = 3
    /\ Statuses(out.completed) =
          <<<<out.completed[1].io, SPDK_BDEV_IO_STATUS_FAILED>>,
            <<out.completed[2].io, SPDK_BDEV_IO_STATUS_FAILED>>,
            <<n_reqs, SPDK_BDEV_IO_STATUS_SUCCESS>>>>
    /\ out.completed[1].io < out.completed[2].io
    /\ out.completed[1].data # out.completed[2].data
    /\ g_error_disks[EE("b1")].pending_ios = <<>>

(***************************************************************************)
(* C4                                                                      *)
(***************************************************************************)
\* the effective error type of a request of kind K arriving on channel ch of disk
Selected(disk, ch, K, error_type) ==
    LET info == g_error_disks[disk].error_vector[K] IN
    /\ info.error_num # 0
    /\ info.error_type = error_type
    /\ io_inflight[disk][ch] >= info.error_qd

\* every parked request of disk stays parked, in place, outstanding and uncompleted
StaysParked(disk) ==
    LET pending == g_error_disks[disk].pending_ios IN
    /\ Len(g_error_disks'[disk].pending_ios) >= Len(pending)
    /\ \A i \in 1 .. Len(pending) :
          /\ g_error_disks'[disk].pending_ios[i] = pending[i]
          /\ pending[i] \in DOMAIN bdev_ios'
          /\ bdev_ios'[pending[i]] = bdev_ios[pending[i]]
          /\ \A j \in 1 .. Len(out'.completed) : out'.completed[j].io # pending[i]
          /\ \A j \in 1 .. Len(out'.forwarded) : out'.forwarded[j].io # pending[i]

\* C4: a request selected for the pending fault is appended to the pending queue
\* of its disk, is neither completed nor forwarded, and leaves io_inflight alone;
\* every step that is not a reset on that disk leaves each parked request in the
\* queue, in place and outstanding; and a parked request is never at the base bdev.
C4_ParkedUntilReset ==
    /\ [](\A disk \in DOMAIN g_error_disks :
             \A i \in 1 .. Len(g_error_disks[disk].pending_ios) :
                LET id == g_error_disks[disk].pending_ios[i] IN
                /\ id \in DOMAIN bdev_ios
                /\ bdev_ios[id].at = "pending"
                /\ bdev_ios[id].disk = disk)
    /\ [][\A disk \in DOMAIN g_error_disks :
             /\ \A ch \in Threads, K \in FaultIoTypes :
                   (IsSubmit(disk, ch, K) /\ Selected(disk, ch, K, VBDEV_IO_PENDING)) =>
                       /\ ParkedAt(disk, n_reqs')
                       /\ io_inflight' = io_inflight
             /\ (\A ch \in Threads : ~IsSubmit(disk, ch, SPDK_BDEV_IO_TYPE_RESET)) =>
                   StaysParked(disk)
       ]_vars

\* A request parked first is still parked after a later request was forwarded
\* and completed by the base bdev.
C4_Witness ==
    /\ out.op = "complete"
    /\ n_reqs >= 2
    /\ g_error_disks[EE("b1")].pending_ios = <<1>>
    /\ out.completed[1].io > 1

(***************************************************************************)
(* C5, C6, C7: vbdev_error_inject_error                                    *)
(***************************************************************************)
\* the five fields a caller passes
FiveFields(opts) ==
    [error_type |-> opts.error_type, error_num |-> opts.error_num,
     error_qd |-> opts.error_qd, corrupt_offset |-> opts.corrupt_offset,
     corrupt_value |-> opts.corrupt_value]

\* nothing but the fault vector of the error disk name may differ after the step
InjectFrame(name) ==
    /\ bdevs' = bdevs
    /\ g_error_config' = g_error_config
    /\ io_inflight' = io_inflight
    /\ bdev_ios' = bdev_ios
    /\ DOMAIN g_error_disks' = DOMAIN g_error_disks
    /\ \A n \in DOMAIN g_error_disks :
          /\ g_error_disks'[n].pending_ios = g_error_disks[n].pending_ios
          /\ g_error_disks'[n].base = g_error_disks[n].base
          /\ g_error_disks'[n].uuid = g_error_disks[n].uuid
          /\ n # name => g_error_disks'[n] = g_error_disks[n]

\* the corrupt-data injections whose corrupt_value is 0, under every selector
ZeroCorruptOpts ==
    {opts \in InjectOpts :
        opts.error_type = VBDEV_IO_CORRUPT_DATA /\ opts.corrupt_value = 0}

\* C5: an injection of corrupt data with corrupt_value = 0 returns -EINVAL under
\* every io_type selector and leaves every fault vector entry of every error disk
\* as it was.
C5_ZeroCorruptValueRejected ==
    [][(/\ IsInject
        /\ \E name \in InjectNames, opts \in ZeroCorruptOpts :
              vbdev_error_inject_error(name, opts)) =>
          /\ out'.rc = -EINVAL
          /\ UNCHANGED <<g_error_disks, bdevs, g_error_config, io_inflight, bdev_ios>>
    ]_vars

\* A second injection was rejected with -EINVAL while occurrences injected by the
\* first are left.
C5_Witness ==
    /\ out.op = "inject"
    /\ out.rc = -EINVAL
    /\ n_injects = 2
    /\ g_error_disks[EE("b1")].error_vector[SPDK_BDEV_IO_TYPE_READ].error_num = MaxErrorNum
    /\ g_error_disks[EE("b1")].error_vector[SPDK_BDEV_IO_TYPE_READ].error_type =
          VBDEV_IO_CORRUPT_DATA

\* every entry of the fault vector of disk has error_num = 0
Cleared(disk) ==
    \A i \in ErrorVectorIndex : g_error_disks[disk].error_vector[i].error_num = 0

\* the injections that select no I/O type, and the others
ClearOpts == {opts \in InjectOpts : opts.io_type = 0}
SetOpts == InjectOpts \ ClearOpts

\* C6: a successful injection with io_type = 0 sets error_num of every entry to 0
\* and leaves error_type, error_qd, corrupt_offset and corrupt_value of every
\* entry as they were; and while every error_num is 0 (as after the clear, until
\* an injection sets occurrences again) each request that is not a reset is
\* forwarded with its bytes untouched, and each completion hands back the bytes
\* of the request as they were forwarded, the error disk unchanged.
C6_Clear ==
    [][\A disk \in DOMAIN g_error_disks :
          /\ (IsInject /\ out'.rc = 0) =>
                \A opts \in ClearOpts :
                    vbdev_error_inject_error(disk, opts) =>
                    /\ \A i \in ErrorVectorIndex :
                          g_error_disks'[disk].error_vector[i] =
                              [g_error_disks[disk].error_vector[i] EXCEPT !.error_num = 0]
                    /\ InjectFrame(disk)
          /\ Cleared(disk) =>
                /\ \A ch \in Threads, type \in IoTypes \ {SPDK_BDEV_IO_TYPE_RESET} :
                      IsSubmit(disk, ch, type) =>
                          /\ ForwardedAs(n_reqs', DataOf(type))
                          /\ g_error_disks'[disk] = g_error_disks[disk]
                /\ \A id \in DOMAIN bdev_ios :
                      (bdev_ios[id].disk = disk /\ IsComplete(id)) =>
                          /\ out'.completed[1].data = bdev_ios[id].data
                          /\ g_error_disks'[disk] = g_error_disks[disk]
    ]_vars

\* After failures were injected on writes and then cleared, the error type is
\* still there and a write has just been forwarded untouched.
C6_Witness ==
    /\ out.op = "submit"
    /\ n_injects = 2
    /\ n_reqs = 1
    /\ Cleared(EE("b1"))
    /\ g_error_disks[EE("b1")].error_vector[SPDK_BDEV_IO_TYPE_WRITE] =
          [error_type |-> VBDEV_IO_FAILURE, error_num |-> 0, error_qd |-> MaxQd,
           corrupt_offset |-> 0, corrupt_value |-> 0]
    /\ g_error_disks[EE("b1")].error_vector[SPDK_BDEV_IO_TYPE_READ].error_type = 0
    /\ out.forwarded = <<Forwarded(1, Payload, 0)>>

\* C7: a successful injection on one I/O type K overwrites the five fields of the
\* entry of K and leaves every other entry as it was; a successful injection on
\* all I/O types writes the same five fields into every entry; neither changes a
\* pending queue, an io_inflight, an outstanding request, the configuration list
\* or another error disk.
C7_InjectFrame ==
    [][(IsInject /\ out'.rc = 0) =>
          \A disk \in DOMAIN g_error_disks, opts \in SetOpts :
              vbdev_error_inject_error(disk, opts) =>
              /\ \A i \in ErrorVectorIndex :
                    g_error_disks'[disk].error_vector[i] =
                        IF opts.io_type = IO_TYPE_ALL \/ opts.io_type = i
                        THEN FiveFields(opts)
                        ELSE g_error_disks[disk].error_vector[i]
              /\ InjectFrame(disk)
    ]_vars

\* Two injections on single I/O types have left two different entries, the
\* second next to the first, while a request is parked.
C7_Witness ==
    /\ out.op = "inject"
    /\ out.rc = 0
    /\ n_injects = 2
    /\ g_error_disks[EE("b1")].pending_ios = <<1>>
    /\ g_error_disks[EE("b1")].error_vector[SPDK_BDEV_IO_TYPE_READ] =
          [error_type |-> VBDEV_IO_PENDING, error_num |-> MaxErrorNum - 1,
           error_qd |-> 0, corrupt_offset |-> 0, corrupt_value |-> 0]
    /\ g_error_disks[EE("b1")].error_vector[SPDK_BDEV_IO_TYPE_WRITE] =
          [error_type |-> VBDEV_IO_CORRUPT_DATA, error_num |-> MaxErrorNum,
           error_qd |-> MaxQd, corrupt_offset |-> 3, corrupt_value |-> 255]
    /\ g_error_disks[EE("b1")].error_vector[SPDK_BDEV_IO_TYPE_UNMAP] = ZeroInfo

(***************************************************************************)
(* C8, C9, C10: the configuration list and the lifecycle                   *)
(***************************************************************************)
HasConfig(config, base) == vbdev_error_config_find_by_base_name(config, base) # 0
ConfigOf(config, base) == config[vbdev_error_config_find_by_base_name(config, base)]
IsCreate == out'.op = "create"
IsRegister == out'.op = "register"
IsHotRemove == out'.op = "hotremove"

\* C8: vbdev_error_create on a base bdev name that names no registered bdev and
\* has no configuration entry returns 0 (unless the entry cannot be allocated)
\* and leaves a configuration entry for the name, with the uuid, and no error
\* disk; when a bdev of that name is registered later the examine callback
\* constructs the error disk EE_<name> with the uuid of the entry (unless the
\* construction fails on an allocation), without another create; the examine
\* callback of a bdev whose name has no configuration entry constructs nothing.
C8_DeferredCreation ==
    [][/\ IsCreate =>
            \A b \in BaseNames, uuid \in Uuids, fail \in ConstructFailures :
                (/\ b \notin bdevs
                 /\ ~HasConfig(g_error_config, b)
                 /\ vbdev_error_create(b, uuid, FALSE, fail)) =>
                    /\ out'.rc = 0
                    /\ g_error_config' =
                          Append(g_error_config, [base_bdev |-> b, uuid |-> uuid])
                    /\ g_error_disks' = g_error_disks
                    /\ bdevs' = bdevs
       /\ IsRegister =>
            \A b \in BaseNames :
                /\ (HasConfig(g_error_config, b) /\ BdevRegister(b, 0)) =>
                      /\ EE(b) \notin DOMAIN g_error_disks
                      /\ g_error_disks' =
                            With(g_error_disks, EE(b),
                                 NewDisk(b, ConfigOf(g_error_config, b).uuid))
                      /\ bdevs' = bdevs \cup {b, EE(b)}
                      /\ g_error_config' = g_error_config
                /\ \A fail \in ConstructFailures :
                      (~HasConfig(g_error_config, b) /\ BdevRegister(b, fail)) =>
                          /\ g_error_disks' = g_error_disks
                          /\ bdevs' = bdevs \cup {b}
                          /\ g_error_config' = g_error_config
    ]_vars

\* The bdev b1 has just been registered, and its error disk, asked for with
\* uuid 1 while b1 was absent, is there; b2 has a configuration entry and
\* neither a bdev nor an error disk.
C8_Witness ==
    /\ out.op = "register"
    /\ bdevs = {"b1", EE("b1")}
    /\ g_error_config = <<[base_bdev |-> "b2", uuid |-> 0], [base_bdev |-> "b1", uuid |-> 1]>>
    /\ DOMAIN g_error_disks = {EE("b1")}
    /\ g_error_disks[EE("b1")] = NewDisk("b1", 1)

\* C9: no two entries of the configuration list have the same base bdev name;
\* vbdev_error_create on a name that has an entry returns -EEXIST, whether or
\* not a bdev of that name is registered, and leaves the configuration list, the
\* error disks and the registered bdevs as they were.
C9_UniqueConfig ==
    /\ [](\A i, j \in 1 .. Len(g_error_config) :
             g_error_config[i].base_bdev = g_error_config[j].base_bdev => i = j)
    /\ [][IsCreate =>
            \A b \in BaseNames, uuid \in Uuids, nomem \in BOOLEAN,
               fail \in ConstructFailures :
                (HasConfig(g_error_config, b)
                 /\ vbdev_error_create(b, uuid, nomem, fail)) =>
                    /\ out'.rc = -EEXIST
                    /\ UNCHANGED <<g_error_config, g_error_disks, bdevs, io_inflight>>
       ]_vars

\* A create has just been refused with -EEXIST while both base bdev names have
\* an entry, one with its error disk and one waiting for its bdev.
C9_Witness ==
    /\ out.op = "create"
    /\ out.rc = -EEXIST
    /\ Len(g_error_config) = 2
    /\ DOMAIN g_error_disks = {EE("b1")}
    /\ bdevs = {"b1", EE("b1")}

\* the error disks on the base bdev base
DisksOn(base) == {n \in DOMAIN g_error_disks : g_error_disks[n].base = base}

C11_FailedCreateRollsBack ==
    [][IsCreate =>
          \A b \in BaseNames, uuid \in Uuids, fail \in ConstructFailures :
              /\ (/\ ~HasConfig(g_error_config, b)
                  /\ b \in bdevs
                  /\ fail # 0
                  /\ vbdev_error_create(b, uuid, FALSE, fail)) =>
                    /\ out'.rc = fail
                    /\ g_error_config' = g_error_config
                    /\ ~HasConfig(g_error_config', b)
                    /\ g_error_disks' = g_error_disks
                    /\ bdevs' = bdevs
              /\ \A nomem \in BOOLEAN :
                    (/\ ~HasConfig(g_error_config, b)
                     /\ vbdev_error_create(b, uuid, nomem, fail)) =>
                        out'.rc # -EEXIST
    ]_vars

\* A create on the registered bdev b1 has just failed with -ENOMEM: b1 has
\* neither an entry nor an error disk, and the entry of b2 stays.
C11_Witness ==
    /\ out.op = "create"
    /\ out.rc = -ENOMEM
    /\ bdevs = {"b1"}
    /\ g_error_config = <<[base_bdev |-> "b2", uuid |-> 1]>>
    /\ DOMAIN g_error_disks = {}

(***************************************************************************)
(* C12, C13, C15: the threads                                              *)
(***************************************************************************)
\* thread t takes the step of its submission that leaves position from
LeavesAt(t, from) == pc.thr[t].at = from /\ pc'.thr[t] # pc.thr[t]
\* the versions of the entry of an I/O type the injections have meant so far
Versions(type) == {pc'.hist[n][type] : n \in 1 .. Len(pc'.hist)}
\* the step changes error_num of the entry of type and is no assignment of an
\* injection
DispatchChangesNum(type) ==
    /\ pc'.stamp = pc.stamp
    /\ g_error_disks'[MtDisk].error_vector[type].error_num #
          g_error_disks[MtDisk].error_vector[type].error_num

\* C12: a submission that found error_num # 0 has read error_type and error_qd
\* of one injection (with occurrences), never error_type of one and error_qd
\* of another; and when a submission decrements error_num, no injection has
\* assigned to the entry since the submission read error_num.
C12_InjectAtomic ==
    [][\A t \in Threads :
          /\ (LeavesAt(t, "gate") /\ pc.thr[t].num # 0) =>
                \E v \in Versions(pc.thr[t].type) :
                    /\ v.error_num > 0
                    /\ v.error_type = pc'.thr[t].etype
                    /\ v.error_qd = pc'.thr[t].qd
          /\ (LeavesAt(t, "act") /\ DispatchChangesNum(pc.thr[t].type)) =>
                pc.stamp[pc.thr[t].type] = pc.thr[t].stamp
    ]_vars

\* C13: whatever the threads do, a step of a submission or a completion that
\* changes error_num of an entry finds it above 0 and takes exactly 1 from it,
\* so that error_num never wraps.
C13_NoUnderflow ==
    [][\A type \in FaultIoTypes :
          DispatchChangesNum(type) =>
              /\ g_error_disks[MtDisk].error_vector[type].error_num > 0
              /\ g_error_disks'[MtDisk].error_vector[type].error_num =
                    g_error_disks[MtDisk].error_vector[type].error_num - 1
    ]_vars

\* the step is the completion callback of the forwarded request id
IsCallback(id) ==
    /\ bdev_ios[id].at = "base"
    /\ out'.op \in {"complete", "abort"}
    /\ \E success \in BOOLEAN, ndebug \in BOOLEAN : MtCallback(id, success, ndebug)
\* the submission that forwarded id has returned
Returned(id) == pc.thr[bdev_ios[id].ch].at = "idle"

ForwardedOn(disk, ch) ==
    {id \in DOMAIN bdev_ios :
        /\ bdev_ios[id].at = "base"
        /\ bdev_ios[id].disk = disk
        /\ bdev_ios[id].ch = ch}

\* C14: io_inflight of a channel is the number of requests forwarded on the
\* channel whose completion callback has not run yet: a request the base bdev
\* rejects is completed as failed and not counted.
C14_InflightCountsForwarded ==
    \A disk \in DOMAIN g_error_disks, ch \in Threads :
        io_inflight[disk][ch] = Cardinality(ForwardedOn(disk, ch))

(***************************************************************************)
(* C18                                                                     *)
(***************************************************************************)
\* C18: a request of kind K that arrives when the entry of K has occurrences
\* left, io_inflight of its channel is not below error_qd and the error type is
\* failure (nomem) is completed in the submission with status FAILED (NOMEM),
\* its bytes as they came, is not forwarded and not outstanding afterwards,
\* takes exactly one occurrence from the entry of K and leaves every
\* io_inflight, the pending queue and the other requests as they were.
C18_FailAndNoMem ==
    [][\A disk \in DOMAIN g_error_disks, K \in FaultIoTypes, ch \in Threads :
          IsSubmit(disk, ch, K) =>
              \A T \in {VBDEV_IO_FAILURE, VBDEV_IO_NOMEM} :
                  Selected(disk, ch, K, T) =>
                      /\ out'.completed =
                            <<Completion(n_reqs',
                                         IF T = VBDEV_IO_FAILURE
                                         THEN SPDK_BDEV_IO_STATUS_FAILED
                                         ELSE SPDK_BDEV_IO_STATUS_NOMEM,
                                         DataOf(K))>>
                      /\ out'.forwarded = <<>>
                      /\ SpentOne(disk, K)
                      /\ g_error_disks'[disk].pending_ios = g_error_disks[disk].pending_ios
                      /\ io_inflight' = io_inflight
                      /\ bdev_ios' = bdev_ios
    ]_vars

\* A read has just been given NOMEM on a channel that has a request in flight
\* while another request is parked: one occurrence of the reads is gone.
C18_Witness ==
    /\ out.op = "submit"
    /\ n_reqs = 3
    /\ out.completed = <<Completion(3, SPDK_BDEV_IO_STATUS_NOMEM, Payload)>>
    /\ g_error_disks[EE("b1")].error_vector[SPDK_BDEV_IO_TYPE_READ] =
          [error_type |-> VBDEV_IO_NOMEM, error_num |-> MaxErrorNum - 1,
           error_qd |-> MaxQd, corrupt_offset |-> 0, corrupt_value |-> 0]
    /\ io_inflight[EE("b1")][1] = 1
    /\ DOMAIN bdev_ios = {1}

(***************************************************************************)
(* C19                                                                     *)
(***************************************************************************)
\* C19: a request whose type is neither reset nor read, write, unmap or flush is
\* handed to the base bdev with its bytes as they came, whatever the error
\* vector holds and whatever the read of error_qd past the end of the vector
\* gives; io_inflight of its channel goes up by 1 and the error disk (error
\* vector and pending queue) stays as it was.
C19_OtherTypesForwarded ==
    [][\A disk \in DOMAIN g_error_disks, ch \in Threads,
          type \in IoTypes \ (FaultIoTypes \cup {SPDK_BDEV_IO_TYPE_RESET}) :
          IsSubmit(disk, ch, type) =>
              /\ ForwardedAs(n_reqs', DataOf(type))
              /\ io_inflight' = [io_inflight EXCEPT ![disk][ch] = @ + 1]
              /\ g_error_disks' = g_error_disks
    ]_vars

\* After failures were injected on all I/O types with error_qd 0, a write-zeroes
\* request has just been forwarded, every entry still having its occurrences.
C19_Witness ==
    /\ out.op = "submit"
    /\ n_injects = 1
    /\ n_reqs = 1
    /\ \A i \in ErrorVectorIndex :
          g_error_disks[EE("b1")].error_vector[i] =
              [error_type |-> VBDEV_IO_FAILURE, error_num |-> MaxErrorNum,
               error_qd |-> 0, corrupt_offset |-> 0, corrupt_value |-> 0]
    /\ out.forwarded = <<Forwarded(1, NoPayload, 0)>>
    /\ bdev_ios[1].type = SPDK_BDEV_IO_TYPE_WRITE_ZEROES
    /\ io_inflight[EE("b1")][2] = 1

(***************************************************************************)
(* C20                                                                     *)
(***************************************************************************)
\* the requests a step completes
CompletedIn(o) == {o.completed[i].io : i \in 1 .. Len(o.completed)}
\* the requests parked on some error disk
Parked ==
    UNION {SeqRange(g_error_disks[disk].pending_ios) : disk \in DOMAIN g_error_disks}

\* C20: a request that is outstanding is either parked (in the pending queue of
\* its error disk, once, and not with the base bdev) or forwarded and waiting
\* for its completion callback (in no pending queue); a step completes a
\* request at most once, and only a request that is outstanding or is the one
\* being submitted; a completed request is no longer outstanding, so that no
\* callback and no later reset completes it again; a request stops being
\* outstanding only by being completed, and request ids are not used again.
C20_CompletedOnce ==
    /\ [](/\ \A id \in DOMAIN bdev_ios :
                /\ id \in 1 .. n_reqs
                /\ bdev_ios[id].at \in {"pending", "base"}
                /\ bdev_ios[id].at = "pending" <=> id \in Parked
                /\ bdev_ios[id].at = "pending" =>
                      id \in SeqRange(g_error_disks[bdev_ios[id].disk].pending_ios)
          /\ Parked \subseteq DOMAIN bdev_ios
          /\ \A disk \in DOMAIN g_error_disks :
                LET q == g_error_disks[disk].pending_ios IN
                \A i, j \in 1 .. Len(q) : q[i] = q[j] => i = j)
    /\ [][/\ Cardinality(CompletedIn(out')) = Len(out'.completed)
          /\ \A id \in CompletedIn(out') :
                /\ id \in DOMAIN bdev_ios \/ (id = n_reqs' /\ n_reqs' = n_reqs + 1)
                /\ id \notin DOMAIN bdev_ios'
          /\ \A id \in DOMAIN bdev_ios :
                id \notin DOMAIN bdev_ios' => id \in CompletedIn(out')
          /\ \A id \in DOMAIN bdev_ios' :
                id \notin DOMAIN bdev_ios => (id = n_reqs' /\ n_reqs' = n_reqs + 1)
          /\ \A i \in 1 .. Len(out'.forwarded) :
                out'.forwarded[i].io \notin Parked
       ]_vars

\* A request was parked, a reset completed it, and a second reset has just
\* completed nothing but itself.
C20_Witness ==
    /\ out.op = "submit"
    /\ n_reqs = 3
    /\ n_injects = 1
    /\ out.completed = <<Completion(3, SPDK_BDEV_IO_STATUS_SUCCESS, NoPayload)>>
    /\ g_error_disks[EE("b1")].error_vector[SPDK_BDEV_IO_TYPE_WRITE] =
          [error_type |-> VBDEV_IO_PENDING, error_num |-> MaxErrorNum - 1,
           error_qd |-> 0, corrupt_offset |-> 0, corrupt_value |-> 0]
    /\ g_error_disks[EE("b1")].pending_ios = <<>>
    /\ bdev_ios = <<>>

(***************************************************************************)
(* C17                                                                     *)
(***************************************************************************)
Bit(x, k) == (x \div (2 ^ k)) % 2
\* bitwise exclusive or of two bytes
XorByte(a, b) ==
    CHOOSE c \in 0 .. 255 : \A k \in 0 .. 7 : Bit(c, k) = (Bit(a, k) + Bit(b, k)) % 2

RECURSIVE LenBefore(_, _)
\* l1 + ... + l(i-1)
LenBefore(iovs, i) == IF i <= 1 THEN 0 ELSE iovs[i - 1].iov_len + LenBefore(iovs, i - 1)

\* what the claim says vbdev_error_corrupt_io_data(before, off, val) leaves
CorruptResult(before, after, off, val) ==
    IF /\ ~before.iovs_null
       /\ Len(before.iovs) > 0
       /\ ~before.iovs[1].iov_base_null
       /\ off < LenBefore(before.iovs, Len(before.iovs) + 1)
    THEN /\ CorruptedAt(before, after, off)
         /\ Flatten(after)[off + 1] = XorByte(Flatten(before)[off + 1], val)
         /\ \E i \in 1 .. Len(before.iovs) :
               /\ off - LenBefore(before.iovs, i) < before.iovs[i].iov_len
               /\ \A j \in 1 .. (i - 1) :
                     off - LenBefore(before.iovs, j) >= before.iovs[j].iov_len
               /\ after.iovs =
                     [before.iovs EXCEPT
                         ![i].iov_base[off - LenBefore(before.iovs, i) + 1] =
                             XorByte(@, val)]
    ELSE after = before

\* the step is the completion callback of a read that succeeded at the base
\* bdev while the entry of the reads is set to corrupt data with occurrences
\* left: lines 215-219 run
ReadCorrupted(id) ==
    /\ out'.op = "complete"
    /\ out'.completed[1].io = id
    /\ out'.completed[1].status = SPDK_BDEV_IO_STATUS_SUCCESS
    /\ bdev_ios[id].type = SPDK_BDEV_IO_TYPE_READ
    /\ LET e == g_error_disks[bdev_ios[id].disk].error_vector[SPDK_BDEV_IO_TYPE_READ] IN
          e.error_num > 0 /\ e.error_type = VBDEV_IO_CORRUPT_DATA

\* C17: when vbdev_error_corrupt_io_data is applied to a buffer list with
\* lengths l1..ln whose first buffer is set, and offset < l1+...+ln, exactly one
\* byte changes: the byte at logical position offset of the concatenated
\* buffers, which lies in the first buffer i with offset - (l1+...+l(i-1)) < li
\* at that local offset, and it becomes old XOR corrupt_value; if offset is not
\* below the total length, or there is no buffer list, or the list is empty or
\* its first buffer is unset, nothing changes.  Buffers of length 0 are passed
\* over.
C17_CorruptionEngine ==
    [][\A id \in DOMAIN bdev_ios :
          ReadCorrupted(id) =>
              LET e == g_error_disks[bdev_ios[id].disk].error_vector[SPDK_BDEV_IO_TYPE_READ] IN
              CorruptResult(bdev_ios[id].data, out'.completed[1].data,
                            e.corrupt_offset, e.corrupt_value)
    ]_vars

\* A read into an empty buffer followed by a buffer of two bytes has just
\* completed with its second byte, at offset 1, flipped by 255.
C17_Witness ==
    /\ out.op = "complete"
    /\ Len(out.completed) = 1
    /\ out.completed[1].status = SPDK_BDEV_IO_STATUS_SUCCESS
    /\ out.completed[1].data =
          [iovs_null |-> FALSE,
           iovs |-> <<[iov_base_null |-> FALSE, iov_base |-> <<>>, iov_len |-> 0],
                      [iov_base_null |-> FALSE, iov_base |-> <<17, 221>>, iov_len |-> 2]>>]
    /\ g_error_disks[EE("b1")].error_vector[SPDK_BDEV_IO_TYPE_READ] =
          [error_type |-> VBDEV_IO_CORRUPT_DATA, error_num |-> 0, error_qd |-> 0,
           corrupt_offset |-> 1, corrupt_value |-> 255]

(***************************************************************************)
(* C16                                                                     *)
(***************************************************************************)
\* the entry of the reads on disk is in effect on channel ch: occurrences are
\* left, the error type is corrupt data and io_inflight is not below error_qd
ReadCorruptInEffect(disk, ch) ==
    LET e == g_error_disks[disk].error_vector[SPDK_BDEV_IO_TYPE_READ] IN
    /\ e.error_num > 0
    /\ e.error_type = VBDEV_IO_CORRUPT_DATA
    /\ io_inflight[disk][ch] >= e.error_qd

\* C16: the completion callback of a forwarded read corrupts the buffers and
\* takes exactly one occurrence from the entry of the reads if and only if the
\* read succeeded and the entry is in effect at that moment (occurrences left,
\* corrupt data, io_inflight of the channel not below error_qd); a failed read
\* completion changes neither; the submission of a read when the entry is set to
\* corrupt data changes neither the entry nor the buffers.
C16_ReadCorruptionGated ==
    [][/\ \A id \in DOMAIN bdev_ios :
            (out'.op = "complete" /\ out'.completed[1].io = id
                /\ bdev_ios[id].type = SPDK_BDEV_IO_TYPE_READ) =>
                LET io == bdev_ios[id]
                    e == g_error_disks[io.disk].error_vector[SPDK_BDEV_IO_TYPE_READ]
                    c == out'.completed[1]
                IN
                IF c.status = SPDK_BDEV_IO_STATUS_SUCCESS
                      /\ ReadCorruptInEffect(io.disk, io.ch)
                THEN /\ SpentOne(io.disk, SPDK_BDEV_IO_TYPE_READ)
                     /\ CorruptResult(io.data, c.data, e.corrupt_offset, e.corrupt_value)
                ELSE /\ g_error_disks' = g_error_disks
                     /\ c.data = io.data
       /\ (/\ n_reqs' # n_reqs
           /\ g_error_disks[EE("b1")].error_vector[SPDK_BDEV_IO_TYPE_READ].error_type
                 = VBDEV_IO_CORRUPT_DATA) =>
              /\ g_error_disks' = g_error_disks
              /\ \E data \in DataInputs, rc \in SubmitRcValues :
                    /\ SubmitRead(EE("b1"), 1, data, rc)
                    /\ out'.forwarded = <<Forwarded(n_reqs', data, rc)>>
    ]_vars

=============================================================================
